---- MODULE Spec2Model ----
(***************************************************************************)
(* The dashboard page of the meeting summarizer                            *)
(* (frontend/src/app/dashboard/page.tsx): the list of upload sessions, the *)
(* client-side validation of a chosen file, the /api/process call, the     *)
(* summarization retry and the credit balance refresh.                     *)
(*                                                                         *)
(* The page runs on the browser's single UI thread: every action below is  *)
(* one run of a handler or of a promise continuation up to its next await. *)
(* alert() is a blocking modal dialog: while one is open nothing else runs.*)
(* A handler reads the state of the render it was created in, so a value   *)
(* it uses after an await (the maximum duration, the selected session id)  *)
(* is the one captured when the event fired.                               *)
(*                                                                         *)
(* The view-only flags isDragging, showUserMenu and openSections take no   *)
(* part in any handler's control flow and are left out.                    *)
(***************************************************************************)
EXTENDS Integers, Sequences, FiniteSets, TLC

\* ------------------------------------------------------------------ bounds
\* Uploads (sessions plus pending duration probes) one run may start.
MaxFiles == 2

\* --------------------------------------------------------------- optionals
\* A TypeScript optional: <<>> is undefined/null, <<v>> is the value v.
None == <<>>
Some(v) == <<v>>

\* a || b on optional strings: undefined and "" are falsy.
OrElse(a, b) == IF a = None \/ a = Some("") THEN b ELSE a

\* ------------------------------------------------------------- file names
\* A file name is a sequence of atoms: "." is a dot, any other atom is a
\* maximal run of non-dot characters.
NameClip == <<"clip", ".", "MKV">>
NameBare == <<"mp3">>
NameNotes == <<"notes", ".", "txt">>
NameBig == <<"big", ".", "mov">>
NameDot == <<"meeting", ".", "mp4", ".">>

\* String.prototype.toLowerCase on the atoms in use.
ToLower(s) ==
  CASE s = "MKV" -> "mkv"
    [] s = "MOV" -> "mov"
    [] OTHER -> s

\* name.split(".").pop(): the text after the last dot, the whole name when it
\* has no dot, "" when the name ends with a dot.
LastSegment(name) ==
  IF name = <<>> THEN ""
  ELSE IF name[Len(name)] = "." THEN ""
  ELSE name[Len(name)]

ALLOWED_EXTENSIONS ==
  { <<".", "mp3">>, <<".", "wav">>, <<".", "m4a">>, <<".", "ogg">>,
    <<".", "mp4">>, <<".", "mov">>, <<".", "mkv">>, <<".", "avi">>,
    <<".", "webm">> }

MB == 1024 * 1024
MAX_FILE_SIZE == 50 * 1024 * 1024

\* File.type is <<major, minor>>, or <<>> when the browser knows no MIME type.
Files ==
  { [name |-> NameClip, size |-> MAX_FILE_SIZE, type |-> <<"video", "x-matroska">>],
    [name |-> NameClip, size |-> MAX_FILE_SIZE, type |-> <<>>],
    [name |-> NameBare, size |-> 10 * MB, type |-> <<>>],
    [name |-> NameNotes, size |-> 10 * MB, type |-> <<"text", "plain">>],
    [name |-> NameNotes, size |-> MAX_FILE_SIZE + 1, type |-> <<"text", "plain">>],
    [name |-> NameBig, size |-> MAX_FILE_SIZE + 1, type |-> <<"video", "quicktime">>],
    [name |-> NameDot, size |-> 40 * MB, type |-> <<"video", "mp4">>] }

\* HTMLMediaElement.duration values (seconds) a metadata load may report.
Durations == {720, 1200, 1201, 2100}

\* ---------------------------------------------------------------- messages
MsgCredit == "Credit tidak cukup. Silakan top up credit Anda."
MsgFormat == "Format file tidak didukung"
MsgSize == "File terlalu besar (max 50MB)"
MsgDuration == "Durasi file melebihi batas paket. Silakan tambah credit."
MsgGeneric == "Terjadi kesalahan"

\* ------------------------------------------------------- backend responses
\* GET /api/credits/balance bodies; a field the body lacks is None.
BalanceBodies ==
  { [total_credits |-> Some(0), free_credits |-> Some(0), paid_credits |-> Some(0),
     max_duration |-> None],
    [total_credits |-> Some(1), free_credits |-> Some(1), paid_credits |-> Some(0),
     max_duration |-> None],
    [total_credits |-> Some(1), free_credits |-> Some(0), paid_credits |-> Some(1),
     max_duration |-> Some(10)],
    [total_credits |-> None, free_credits |-> None, paid_credits |-> None,
     max_duration |-> None] }

\* 2xx bodies of /api/process and /api/retry-summary.
SuccessBodies ==
  { [status |-> "success", duration_minutes |-> 12, transcript |-> "t1",
     summary |-> [ringkasan_singkat |-> "r1", poin_penting |-> <<"p1", "p2">>,
                  action_items |-> <<"a1">>]],
    [status |-> "success", duration_minutes |-> 20, transcript |-> "t2",
     summary |-> [ringkasan_singkat |-> "r2", poin_penting |-> <<>>,
                  action_items |-> <<>>]] }

\* 2xx bodies of /api/retry-summary: the summary of a stored transcript.
RetrySuccessBodies ==
  { [status |-> "success", duration_minutes |-> 12, transcript |-> "pt1",
     summary |-> [ringkasan_singkat |-> "r3", poin_penting |-> <<"p3">>,
                  action_items |-> <<>>]] }

\* non-2xx bodies with status "partial".
PartialBodies ==
  { [status |-> "partial", stage |-> "summarization", transcript |-> "pt1",
     cache_key |-> "abc123", error |-> "summarizer unavailable"],
    [status |-> "partial", stage |-> "summarization", transcript |-> "pt2",
     cache_key |-> "", error |-> "malformed output"] }

\* other non-2xx bodies: the error and detail fields, each optional.
ErrorBodies ==
  { [error |-> Some("unsupported media"), detail |-> None],
    [error |-> None, detail |-> Some("corrupt file")],
    [error |-> None, detail |-> None] }

\* Error.message of a rejected fetch() or a rejected response.json().
ThrownMessages == {"Failed to fetch"}

VARIABLES
  files,          \* FileItem[], newest first
  selectedFileId, \* optional session id
  isRetrying,
  userCredits,    \* optional {total, free, paid, maxDuration}
  probes,         \* handlers suspended in `await validateDuration(file)`
  processReqs,    \* POST /api/process calls in flight
  retryReqs,      \* POST /api/retry-summary calls in flight
  balanceReqs,    \* GET /api/credits/balance calls in flight
  balanceSeq,     \* balance calls issued so far
  alert           \* the open alert() dialog, if any

\* the dashboard page's state
dashVars == <<files, selectedFileId, isRetrying, userCredits, probes,
              processReqs, retryReqs, balanceReqs, balanceSeq, alert>>

\* The admin console (src/frontend/src/app/admin/page.tsx).
VARIABLES
  activeTab,        \* "pending" | "history"
  purchases,        \* the pending list shown
  history,          \* the history list shown
  loading,
  adminKey,
  authenticated,
  selectedPurchase, \* optional Purchase
  actionLoading,    \* optional purchase id
  error,            \* optional message
  savedKey,         \* localStorage item "admin_key", optional
  fetchCalls,       \* fetchData() calls awaiting Promise.all
  actionCalls       \* approve / reject POSTs in flight

adminVars == <<activeTab, purchases, history, loading, adminKey, authenticated,
               selectedPurchase, actionLoading, error, savedKey, fetchCalls,
               actionCalls>>

\* The buy-credits page (src/unnamed/part_000).
VARIABLES
  packages,        \* optional PackageData[]: undefined after an error body
  selectedPackage, \* optional PackageData
  proofFile,       \* optional File
  buyLoading,      \* the page's `loading`
  submitting,
  success,
  buyError,        \* the page's `error`, optional message
  user,            \* useAuth().user, optional id
  urlPackage,      \* searchParams.get("package"), optional
  packagesCalls,   \* fetchPackages() calls in flight
  purchaseCalls    \* POST /api/credits/purchase calls in flight

buyVars == <<packages, selectedPackage, proofFile, buyLoading, submitting,
             success, buyError, user, urlPackage, packagesCalls, purchaseCalls>>

\* The database (src/supabase_schema.sql).
VARIABLES
  user_credits,     \* rows of public.user_credits
  credit_purchases, \* rows of public.credit_purchases
  credit_usage,     \* rows of public.credit_usage
  recordings,       \* rows of public.recordings
  now               \* NOW(), in hours

dbVars == <<user_credits, credit_purchases, credit_usage, recordings, now>>

\* The result views: the dashboard's result panel and the ResultDisplay
\* component (src/frontend/src/components/ResultDisplay.tsx).
VARIABLES
  openSections,     \* dashboard: {summary, keyPoints, actionItems, transcript}
  expandedSections, \* ResultDisplay: Set<SectionKey>
  resultProp        \* ResultDisplay's props.result, optional (not mounted)

viewVars == <<openSections, expandedSections, resultProp>>

vars == <<dashVars, adminVars, buyVars, dbVars, viewVars>>

\* ------------------------------------------------------------ derived state
isProcessing == \E i \in 1..Len(files) : files[i].status = "processing"

\* files.find(f => f.id === selectedFileId)
selectedFile ==
  IF selectedFileId = None THEN None
  ELSE LET hits == {i \in 1..Len(files) : files[i].id = selectedFileId[1]}
       IN IF hits = {} THEN None
          ELSE Some(files[CHOOSE i \in hits : \A j \in hits : i <= j])

\* ------------------------------------------------------------- validation
validateFile_NoSizeCheck(file) ==
  IF <<".", ToLower(LastSegment(file.name))>> \notin ALLOWED_EXTENSIONS
  THEN Some(MsgFormat)
  ELSE None

validateFile(file) ==
  IF <<".", ToLower(LastSegment(file.name))>> \notin ALLOWED_EXTENSIONS
  THEN Some(MsgFormat)
  ELSE IF file.size > MAX_FILE_SIZE THEN Some(MsgSize)
  ELSE None

\* free + paid, NaN (None) when a field is undefined
CreditSum(c) ==
  IF c.free = None \/ c.paid = None THEN None ELSE Some(c.free[1] + c.paid[1])

checkCredits_NoCheck == TRUE

checkCredits ==
  IF userCredits = None THEN FALSE
  ELSE LET sum == CreditSum(userCredits[1])
       IN sum # None /\ sum[1] >= 1

DefaultMaxDuration == 20

getMaxDuration ==
  IF userCredits = None \/ userCredits[1].maxDuration = 0
  THEN DefaultMaxDuration
  ELSE userCredits[1].maxDuration

\* whether validateDuration loads the file into a media element at all
isMedia(file) ==
  Len(file.type) >= 1 /\ file.type[1] \in {"audio", "video"}

\* element.onloadedmetadata: duration / 60 > max
DurationVerdict_NonStrict(secs, max) ==
  IF secs >= max * 60 THEN Some(MsgDuration) ELSE None

DurationVerdict(secs, max) ==
  IF secs > max * 60 THEN Some(MsgDuration) ELSE None

\* -------------------------------------------------------------- processFile
\* setFiles(prev => prev.map(f => f.id === fileId ? {...f, ...updates} : f))
updateFile_EverySession(fs, fileId, updates) ==
  [i \in 1..Len(fs) |->
     [k \in DOMAIN fs[i] |->
        IF k \in DOMAIN updates THEN updates[k] ELSE fs[i][k]]]

updateFile(fs, fileId, updates) ==
  [i \in 1..Len(fs) |->
     IF fs[i].id = fileId
     THEN [k \in DOMAIN fs[i] |->
             IF k \in DOMAIN updates THEN updates[k] ELSE fs[i][k]]
     ELSE fs[i]]

\* fetchUserCredits(): one GET /api/credits/balance
fetchUserCredits_Skipped == UNCHANGED <<balanceSeq, balanceReqs>>

fetchUserCredits ==
  /\ balanceSeq' = balanceSeq + 1
  /\ balanceReqs' = balanceReqs \cup {balanceSeq + 1}

\* processFile up to `await fetch(...)`: the new session is prepended and
\* selected, and the upload is sent.  `checks` records, for the request, the
\* validation steps the calling handler completed before the call.
processFile(file, checks) ==
  LET fileId == Len(files) + 1
      fileItem == [id |-> fileId, name |-> file.name, status |-> "processing",
                   progress |-> 10, result |-> None, partialResult |-> None,
                   error |-> None]
  IN /\ files' = <<fileItem>> \o files
     /\ selectedFileId' = Some(fileId)
     /\ processReqs' = processReqs \cup
                         {[id |-> fileId, file |-> file, checks |-> checks]}

\* ------------------------------------------- handleFileInput / handleDrop
\* `await validateDuration(file)` and what follows it.  A file whose MIME type
\* is neither audio/* nor video/* has validateDuration resolve at once, and
\* the continuation (processFile) runs before any other event; otherwise the
\* handler is suspended until the media element reports.
runDurationCheck_NoAwait(file, checks) ==
  /\ processFile(file, checks)
  /\ UNCHANGED <<isRetrying, userCredits, probes, retryReqs, balanceReqs,
                 balanceSeq, alert>>

runDurationCheck(file, checks) ==
  IF isMedia(file)
  THEN /\ probes' = Append(probes,
                      [file |-> file, max |-> getMaxDuration, checks |-> checks])
       /\ UNCHANGED <<files, selectedFileId, isRetrying, userCredits,
                      processReqs, retryReqs, balanceReqs, balanceSeq, alert>>
  ELSE /\ processFile(file, Append(checks, "duration"))
       /\ UNCHANGED <<isRetrying, userCredits, probes, retryReqs, balanceReqs,
                      balanceSeq, alert>>

\* The handler up to its first await (or to its end).
ChooseFile(file) ==
  /\ alert = None
  /\ ~isProcessing
  /\ Len(files) + Len(probes) < MaxFiles
  /\ IF ~checkCredits
     THEN /\ alert' = Some([msg |-> MsgCredit, args |-> <<>>, from |-> "upload"])
          /\ UNCHANGED <<files, selectedFileId, isRetrying, userCredits, probes,
                         processReqs, retryReqs, balanceReqs, balanceSeq>>
     ELSE IF validateFile(file) # None
     THEN /\ alert' = Some([msg |-> validateFile(file)[1], args |-> <<>>,
                            from |-> "upload"])
          /\ UNCHANGED <<files, selectedFileId, isRetrying, userCredits, probes,
                         processReqs, retryReqs, balanceReqs, balanceSeq>>
     ELSE runDurationCheck(file, <<"credit", "extension", "size">>)

handleFileInput == \E file \in Files : ChooseFile(file)

handleDrop == \E file \in Files : ChooseFile(file)

RemoveAt(s, i) == [j \in 1..(Len(s) - 1) |-> IF j < i THEN s[j] ELSE s[j + 1]]

\* element.onloadedmetadata, then the handler's continuation
ProbeLoaded(i, secs) ==
  /\ alert = None
  /\ i \in 1..Len(probes)
  /\ probes' = RemoveAt(probes, i)
  /\ LET p == probes[i]
         durationError == DurationVerdict(secs, p.max)
     IN IF durationError # None
        THEN /\ alert' = Some([msg |-> durationError[1], args |-> <<secs, p.max>>,
                               from |-> "upload"])
             /\ UNCHANGED <<files, selectedFileId, isRetrying, userCredits,
                            processReqs, retryReqs, balanceReqs, balanceSeq>>
        ELSE /\ processFile(p.file, Append(p.checks, "duration"))
             /\ UNCHANGED <<isRetrying, userCredits, retryReqs, balanceReqs,
                            balanceSeq, alert>>

\* element.onerror, then the handler's continuation
ProbeFailed(i) ==
  /\ alert = None
  /\ i \in 1..Len(probes)
  /\ probes' = RemoveAt(probes, i)
  /\ processFile(probes[i].file, Append(probes[i].checks, "duration"))
  /\ UNCHANGED <<isRetrying, userCredits, retryReqs, balanceReqs, balanceSeq,
                 alert>>

\* ------------------------------------------------- /api/process responses
\* response.ok, body parsed
ProcessOk(r, data) ==
  /\ alert = None
  /\ r \in processReqs
  /\ processReqs' = processReqs \ {r}
  /\ files' = updateFile(files, r.id,
                [status |-> "completed", progress |-> 100, result |-> Some(data)])
  /\ fetchUserCredits
  /\ UNCHANGED <<selectedFileId, isRetrying, userCredits, probes, retryReqs, alert>>

\* !response.ok, data.status === "partial"
ProcessPartial(r, data) ==
  /\ alert = None
  /\ r \in processReqs
  /\ processReqs' = processReqs \ {r}
  /\ files' = updateFile(files, r.id,
                [status |-> "error", progress |-> 100, partialResult |-> Some(data)])
  /\ UNCHANGED <<selectedFileId, isRetrying, userCredits, probes, retryReqs,
                 balanceReqs, balanceSeq, alert>>

\* !response.ok, any other body
ProcessError(r, data) ==
  /\ alert = None
  /\ r \in processReqs
  /\ processReqs' = processReqs \ {r}
  /\ files' = updateFile(files, r.id,
                [status |-> "error", progress |-> 100,
                 error |-> OrElse(OrElse(data.error, data.detail), Some(MsgGeneric))])
  /\ UNCHANGED <<selectedFileId, isRetrying, userCredits, probes, retryReqs,
                 balanceReqs, balanceSeq, alert>>

\* fetch() or response.json() rejected
ProcessThrow(r, message) ==
  /\ alert = None
  /\ r \in processReqs
  /\ processReqs' = processReqs \ {r}
  /\ files' = updateFile(files, r.id,
                [status |-> "error", progress |-> 100, error |-> Some(message)])
  /\ UNCHANGED <<selectedFileId, isRetrying, userCredits, probes, retryReqs,
                 balanceReqs, balanceSeq, alert>>

\* ------------------------------------------------------- balance responses
BalanceLoaded(n, data) ==
  /\ alert = None
  /\ n \in balanceReqs
  /\ balanceReqs' = balanceReqs \ {n}
  /\ userCredits' = Some([total |-> data.total_credits,
                          free |-> data.free_credits,
                          paid |-> data.paid_credits,
                          maxDuration |->
                            IF data.max_duration = None \/ data.max_duration = Some(0)
                            THEN DefaultMaxDuration
                            ELSE data.max_duration[1]])
  /\ UNCHANGED <<files, selectedFileId, isRetrying, probes, processReqs,
                 retryReqs, balanceSeq, alert>>

\* .catch(console.error)
BalanceFailed(n) ==
  /\ alert = None
  /\ n \in balanceReqs
  /\ balanceReqs' = balanceReqs \ {n}
  /\ UNCHANGED <<files, selectedFileId, isRetrying, userCredits, probes,
                 processReqs, retryReqs, balanceSeq, alert>>

\* ------------------------------------------------------------- selection
SelectFile_Refreshing(i) ==
  /\ alert = None
  /\ i \in 1..Len(files)
  /\ selectedFileId' = Some(files[i].id)
  /\ fetchUserCredits
  /\ UNCHANGED <<files, isRetrying, userCredits, probes, processReqs, retryReqs,
                 alert>>

SelectFile(i) ==
  /\ alert = None
  /\ i \in 1..Len(files)
  /\ selectedFileId' = Some(files[i].id)
  /\ UNCHANGED <<files, isRetrying, userCredits, probes, processReqs, retryReqs,
                 balanceReqs, balanceSeq, alert>>

\* --------------------------------------------------- handleRetrySummarization
\* The retry button is rendered for the selected session when it has a
\* partialResult, and is disabled while isRetrying.
retryOffered ==
  /\ selectedFile # None
  /\ selectedFile[1].status # "processing"
  /\ selectedFile[1].partialResult # None
  /\ ~isRetrying

\* JSON.stringify({cache_key: selectedFile.partialResult.cache_key})
RetryBody_WholePartial(session) ==
  [cache_key |-> session.partialResult[1].cache_key,
   transcript |-> session.partialResult[1].transcript]

RetryBody(session) == [cache_key |-> session.partialResult[1].cache_key]

\* the handler with its early return dropped: a request for whatever is selected
retrySummarization_NoGuard ==
  /\ selectedFile # None
  /\ isRetrying' = TRUE
  /\ retryReqs' = retryReqs \cup
       {[target |-> selectedFileId[1], body |-> [cache_key |-> ""]]}
  /\ UNCHANGED <<files, selectedFileId, userCredits, probes, processReqs,
                 balanceReqs, balanceSeq, alert>>

\* the handler's body: `if (!selectedFile?.partialResult?.cache_key) return;`
\* then setIsRetrying(true) and the POST to /api/retry-summary
retrySummarization ==
  IF \/ selectedFile = None
     \/ selectedFile[1].partialResult = None
     \/ selectedFile[1].partialResult[1].cache_key = ""
  THEN UNCHANGED vars
  ELSE /\ isRetrying' = TRUE
       /\ retryReqs' = retryReqs \cup
            {[target |-> selectedFileId[1], body |-> RetryBody(selectedFile[1])]}
       /\ UNCHANGED <<files, selectedFileId, userCredits, probes, processReqs,
                      balanceReqs, balanceSeq, alert>>

\* a click on the retry button, which is rendered for a partial session only
handleRetrySummarization ==
  /\ alert = None
  /\ retryOffered
  /\ retrySummarization

\* response.ok: the session the handler's render had selected is completed
RetryOk_KeepsPartial(r, data) ==
  /\ alert = None
  /\ r \in retryReqs
  /\ retryReqs' = retryReqs \ {r}
  /\ files' = updateFile(files, r.target,
                [status |-> "completed", result |-> Some(data)])
  /\ fetchUserCredits
  /\ isRetrying' = FALSE
  /\ UNCHANGED <<selectedFileId, userCredits, probes, processReqs, alert>>

RetryOk_ToSelected(r, data) ==
  /\ alert = None
  /\ r \in retryReqs
  /\ retryReqs' = retryReqs \ {r}
  /\ files' = updateFile(files, selectedFileId[1],
                [status |-> "completed", result |-> Some(data),
                 partialResult |-> None, error |-> None])
  /\ fetchUserCredits
  /\ isRetrying' = FALSE
  /\ UNCHANGED <<selectedFileId, userCredits, probes, processReqs, alert>>

RetryOk(r, data) ==
  /\ alert = None
  /\ r \in retryReqs
  /\ retryReqs' = retryReqs \ {r}
  /\ files' = updateFile(files, r.target,
                [status |-> "completed", result |-> Some(data),
                 partialResult |-> None, error |-> None])
  /\ fetchUserCredits
  /\ isRetrying' = FALSE
  /\ UNCHANGED <<selectedFileId, userCredits, probes, processReqs, alert>>

\* !response.ok: throw new Error(data.error || data.detail); or a rejected
\* fetch()/json().  The catch block alerts; `finally` runs once the dialog is
\* closed.
RetryFailed_AsHardError(r, message) ==
  /\ alert = None
  /\ r \in retryReqs
  /\ retryReqs' = retryReqs \ {r}
  /\ files' = updateFile(files, r.target,
                [partialResult |-> None, error |-> Some(message)])
  /\ alert' = Some([msg |-> message, args |-> <<>>, from |-> "retry"])
  /\ UNCHANGED <<selectedFileId, isRetrying, userCredits, probes,
                 processReqs, balanceReqs, balanceSeq>>

RetryFailed(r, message) ==
  /\ alert = None
  /\ r \in retryReqs
  /\ retryReqs' = retryReqs \ {r}
  /\ alert' = Some([msg |-> message, args |-> <<>>, from |-> "retry"])
  /\ UNCHANGED <<files, selectedFileId, isRetrying, userCredits, probes,
                 processReqs, balanceReqs, balanceSeq>>

\* new Error(data.error || data.detail).message: "" when both are absent
RetryErrorMessage(data) ==
  LET m == OrElse(data.error, data.detail) IN IF m = None THEN "" ELSE m[1]

\* the user closes the dialog; a retry's `finally` then clears the flag
DismissAlert_KeepsRetrying ==
  /\ alert # None
  /\ alert' = None
  /\ UNCHANGED <<files, selectedFileId, isRetrying, userCredits, probes,
                 processReqs, retryReqs, balanceReqs, balanceSeq>>

DismissAlert ==
  /\ alert # None
  /\ alert' = None
  /\ isRetrying' = IF alert[1].from = "retry" THEN FALSE ELSE isRetrying
  /\ UNCHANGED <<files, selectedFileId, userCredits, probes, processReqs,
                 retryReqs, balanceReqs, balanceSeq>>

\* ============================================================ admin console
\* in-flight admin calls allowed at once
MaxCalls == 2

PurchaseIds == {"p1", "p2"}

Purchase(id, status) == [id |-> id, status |-> status]

\* what the key input can hold
AdminKeys == {"", " ", "k1"}

\* String.prototype.trim on those inputs
Trim(k) == IF k = " " THEN "" ELSE k

MsgBadKey == "Admin key tidak valid"
MsgLoadFailed == "Gagal memuat data"
MsgActionFailed == "Aksi gagal"

\* `x.purchases || []`
OrEmpty(list) == IF list = None THEN <<>> ELSE list[1]

\* The pair of responses awaited by fetchData: HTTP status and the body's
\* `purchases` field (absent in an error body) of the pending and history
\* calls.
FetchResponses ==
  { [pendingStatus |-> 200, historyStatus |-> 200,
     pending |-> Some(<<Purchase("p1", "pending"), Purchase("p2", "pending")>>),
     history |-> Some(<<>>)],
    [pendingStatus |-> 200, historyStatus |-> 200,
     pending |-> Some(<<Purchase("p2", "pending")>>),
     history |-> Some(<<Purchase("p1", "approved")>>)],
    [pendingStatus |-> 500, historyStatus |-> 500,
     pending |-> None, history |-> None],
    [pendingStatus |-> 401, historyStatus |-> 401,
     pending |-> None, history |-> None],
    [pendingStatus |-> 200, historyStatus |-> 401,
     pending |-> Some(<<Purchase("p1", "pending")>>), history |-> None] }

\* statuses of an approve / reject response that is not ok
ActionFailures == {401, 500}

\* const currentList = activeTab === "pending" ? purchases : history
currentList == IF activeTab = "pending" THEN purchases ELSE history

\* purchases.find(p => p.id === purchaseId)
find(list, purchaseId) ==
  LET hits == {i \in 1..Len(list) : list[i].id = purchaseId}
  IN IF hits = {} THEN None
     ELSE Some(list[CHOOSE i \in hits : \A j \in hits : i <= j])

\* prev.filter(p => p.id !== purchaseId)
RECURSIVE filterOut(_, _)
filterOut(list, purchaseId) ==
  IF list = <<>> THEN <<>>
  ELSE IF Head(list).id = purchaseId THEN filterOut(Tail(list), purchaseId)
       ELSE <<Head(list)>> \o filterOut(Tail(list), purchaseId)

\* the lists, tabs and detail panel are rendered
consoleShown == authenticated /\ ~loading

\* the login form's input
setAdminKey(k) ==
  /\ ~authenticated
  /\ adminKey' = k
  /\ UNCHANGED <<activeTab, purchases, history, loading, authenticated,
                 selectedPurchase, actionLoading, error, savedKey, fetchCalls,
                 actionCalls>>

\* submit of the login form; the effect on [authenticated, adminKey] then
\* calls fetchData
handleLogin ==
  /\ ~authenticated
  /\ fetchCalls + Len(actionCalls) < MaxCalls
  /\ IF Trim(adminKey) # ""
     THEN /\ savedKey' = Some(adminKey)
          /\ authenticated' = TRUE
          /\ loading' = TRUE
          /\ error' = None
          /\ fetchCalls' = fetchCalls + 1
          /\ UNCHANGED <<activeTab, purchases, history, adminKey,
                         selectedPurchase, actionLoading, actionCalls>>
     ELSE UNCHANGED adminVars

handleLogout ==
  /\ consoleShown
  /\ savedKey' = None
  /\ authenticated' = FALSE
  /\ adminKey' = ""
  /\ purchases' = <<>>
  /\ history' = <<>>
  /\ UNCHANGED <<activeTab, loading, selectedPurchase, actionLoading, error,
                 fetchCalls, actionCalls>>

\* a click on one of the two tabs
setActiveTab(tab) ==
  /\ consoleShown
  /\ activeTab' = tab
  /\ selectedPurchase' = None
  /\ UNCHANGED <<purchases, history, loading, adminKey, authenticated,
                 actionLoading, error, savedKey, fetchCalls, actionCalls>>

\* a click on a card of the list shown
setSelectedPurchase(i) ==
  /\ consoleShown
  /\ i \in 1..Len(currentList)
  /\ selectedPurchase' = Some(currentList[i])
  /\ UNCHANGED <<activeTab, purchases, history, loading, adminKey,
                 authenticated, actionLoading, error, savedKey, fetchCalls,
                 actionCalls>>

\* the detail panel shows enabled Approve and Reject buttons
actionOffered ==
  /\ consoleShown
  /\ currentList # <<>>
  /\ selectedPurchase # None
  /\ activeTab = "pending"
  /\ actionLoading # Some(selectedPurchase[1].id)

\* handleAction(selectedPurchase.id, action) up to its await; `processed` is
\* what the handler will find in the `purchases` of the render it was made in
handleAction(action) ==
  /\ actionOffered
  /\ fetchCalls + Len(actionCalls) < MaxCalls
  /\ actionLoading' = Some(selectedPurchase[1].id)
  /\ actionCalls' =
       Append(actionCalls,
              [id |-> selectedPurchase[1].id, action |-> action,
               processed |-> find(purchases, selectedPurchase[1].id)])
  /\ UNCHANGED <<activeTab, purchases, history, loading, adminKey,
                 authenticated, selectedPurchase, error, savedKey, fetchCalls>>

\* res.ok: the purchase moves to the head of history
ActionOk(i) ==
  /\ i \in 1..Len(actionCalls)
  /\ LET call == actionCalls[i]
         status == IF call.action = "approve" THEN "approved" ELSE "rejected"
     IN /\ history' =
             IF call.processed # None
             THEN <<[call.processed[1] EXCEPT !.status = status]>> \o history
             ELSE history
        /\ purchases' = filterOut(purchases, call.id)
  /\ selectedPurchase' = None
  /\ actionLoading' = None
  /\ actionCalls' = RemoveAt(actionCalls, i)
  /\ UNCHANGED <<activeTab, loading, adminKey, authenticated, error, savedKey,
                 fetchCalls>>

\* !res.ok: throw new Error("Action failed"), whatever the status
ActionNotOk(i, status) ==
  /\ i \in 1..Len(actionCalls)
  /\ error' = Some(MsgActionFailed)
  /\ actionLoading' = None
  /\ actionCalls' = RemoveAt(actionCalls, i)
  /\ UNCHANGED <<activeTab, purchases, history, loading, adminKey,
                 authenticated, selectedPurchase, savedKey, fetchCalls>>

\* the fetch rejects
ActionThrew(i) ==
  /\ i \in 1..Len(actionCalls)
  /\ error' = Some(MsgActionFailed)
  /\ actionLoading' = None
  /\ actionCalls' = RemoveAt(actionCalls, i)
  /\ UNCHANGED <<activeTab, purchases, history, loading, adminKey,
                 authenticated, selectedPurchase, savedKey, fetchCalls>>

\* both responses of fetchData arrived and both bodies parsed
FetchLoaded(res) ==
  /\ fetchCalls > 0
  /\ fetchCalls' = fetchCalls - 1
  /\ loading' = FALSE
  /\ IF res.pendingStatus = 401
     THEN /\ error' = Some(MsgBadKey)
          /\ authenticated' = FALSE
          /\ savedKey' = None
          /\ UNCHANGED <<purchases, history>>
     ELSE /\ purchases' = OrEmpty(res.pending)
          /\ history' = OrEmpty(res.history)
          /\ UNCHANGED <<error, authenticated, savedKey>>
  /\ UNCHANGED <<activeTab, adminKey, selectedPurchase, actionLoading,
                 actionCalls>>

\* a fetch rejects or a body does not parse
FetchThrew ==
  /\ fetchCalls > 0
  /\ fetchCalls' = fetchCalls - 1
  /\ loading' = FALSE
  /\ error' = Some(MsgLoadFailed)
  /\ UNCHANGED <<activeTab, purchases, history, adminKey, authenticated,
                 selectedPurchase, actionLoading, savedKey, actionCalls>>

\* the useState initialisers: the component before its mount effect
AdminConstructed ==
  /\ activeTab = "pending"
  /\ purchases = <<>>
  /\ history = <<>>
  /\ loading = TRUE
  /\ adminKey = ""
  /\ authenticated = FALSE
  /\ selectedPurchase = None
  /\ actionLoading = None
  /\ error = None
  /\ savedKey = None
  /\ fetchCalls = 0
  /\ actionCalls = <<>>

\* After the mount effects: a key from the URL or from localStorage is taken
\* and the first fetchData is awaited, or else the login form is shown.
AdminMounted ==
  /\ activeTab = "pending"
  /\ purchases = <<>>
  /\ history = <<>>
  /\ selectedPurchase = None
  /\ actionLoading = None
  /\ error = None
  /\ actionCalls = <<>>
  /\ \/ /\ adminKey = "k1"
        /\ savedKey = Some("k1")
        /\ authenticated = TRUE
        /\ loading = TRUE
        /\ fetchCalls = 1
     \/ /\ adminKey = ""
        /\ savedKey = None
        /\ authenticated = FALSE
        /\ loading = FALSE
        /\ fetchCalls = 0

\* ========================================================= buy-credits page
\* const allowedTypes = ["image/jpeg", "image/png", "image/webp"]
allowedTypes == {"image/jpeg", "image/png", "image/webp"}

\* 5 * 1024 * 1024
MAX_PROOF_SIZE == 5 * 1024 * 1024

\* files the picker can hand to handleFileChange
ProofFiles ==
  { [name |-> "bukti.jpg", type |-> "image/jpeg", size |-> 1 * MB],
    [name |-> "bukti.png", type |-> "image/png", size |-> 5 * MB],
    [name |-> "bukti.webp", type |-> "image/webp", size |-> 5 * MB + 1],
    [name |-> "bukti.pdf", type |-> "application/pdf", size |-> 1 * MB],
    [name |-> "bukti.gif", type |-> "image/gif", size |-> 6 * MB] }

\* the packages of a good /api/credits/packages body
PackageList == <<[id |-> "starter"], [id |-> "value"]>>

\* the `package` query parameter of the page's URL
UrlPackages == {None, Some("value"), Some("team")}

\* bodies of a non-2xx /api/credits/purchase response
PurchaseErrorBodies ==
  { [error |-> None, detail |-> Some("Paket tidak ditemukan")],
    [error |-> Some("storage unavailable"), detail |-> None],
    [error |-> None, detail |-> None] }

MsgProofType == "Hanya file gambar (JPEG, PNG, WebP) yang diizinkan"
MsgProofSize == "Ukuran file maksimal 5MB"
MsgChoose == "Pilih paket dan upload bukti transfer"
MsgPurchaseFailed == "Gagal mengirim pembelian"

\* the package list, the form and its buttons are rendered
buyShown == ~buyLoading /\ ~success /\ packages # None

\* fetchPackages got a body with packages; the effect on [searchParams,
\* packages] then selects the package named in the URL, if it is listed
PackagesLoaded ==
  /\ packagesCalls > 0
  /\ packagesCalls' = packagesCalls - 1
  /\ packages' = Some(PackageList)
  /\ buyLoading' = FALSE
  /\ selectedPackage' =
       IF /\ urlPackage # None
          /\ \E i \in 1..Len(PackageList) : PackageList[i].id = urlPackage[1]
       THEN Some([id |-> urlPackage[1]])
       ELSE selectedPackage
  /\ UNCHANGED <<proofFile, submitting, success, buyError, user, urlPackage,
                 purchaseCalls>>

\* an error body: setPackages(undefined), and the render of packages.map
\* throws
PackagesMissing ==
  /\ packagesCalls > 0
  /\ packagesCalls' = packagesCalls - 1
  /\ packages' = None
  /\ buyLoading' = FALSE
  /\ UNCHANGED <<selectedPackage, proofFile, submitting, success, buyError,
                 user, urlPackage, purchaseCalls>>

\* the fetch rejects or the body does not parse
PackagesThrew ==
  /\ packagesCalls > 0
  /\ packagesCalls' = packagesCalls - 1
  /\ buyLoading' = FALSE
  /\ UNCHANGED <<packages, selectedPackage, proofFile, submitting, success,
                 buyError, user, urlPackage, purchaseCalls>>

\* a click on a package button
setSelectedPackage(i) ==
  /\ buyShown
  /\ i \in 1..Len(packages[1])
  /\ selectedPackage' = Some(packages[1][i])
  /\ UNCHANGED <<packages, proofFile, buyLoading, submitting, success,
                 buyError, user, urlPackage, packagesCalls, purchaseCalls>>

\* the handler with the size check left out
handleFileChange_ClearsOnReject(file) ==
  /\ buyShown
  /\ selectedPackage # None
  /\ IF file.type \notin allowedTypes
     THEN buyError' = Some(MsgProofType) /\ proofFile' = None
     ELSE IF file.size > MAX_PROOF_SIZE
          THEN buyError' = Some(MsgProofSize) /\ proofFile' = None
          ELSE proofFile' = Some(file) /\ buyError' = None
  /\ UNCHANGED <<packages, selectedPackage, buyLoading, submitting, success,
                 user, urlPackage, packagesCalls, purchaseCalls>>

handleFileChange_NoSizeCheck(file) ==
  /\ buyShown
  /\ selectedPackage # None
  /\ IF file.type \notin allowedTypes
     THEN buyError' = Some(MsgProofType) /\ UNCHANGED proofFile
     ELSE proofFile' = Some(file) /\ buyError' = None
  /\ UNCHANGED <<packages, selectedPackage, buyLoading, submitting, success,
                 user, urlPackage, packagesCalls, purchaseCalls>>

\* the file input of the form, rendered once a package is selected
handleFileChange(file) ==
  /\ buyShown
  /\ selectedPackage # None
  /\ IF file.type \notin allowedTypes
     THEN buyError' = Some(MsgProofType) /\ UNCHANGED proofFile
     ELSE IF file.size > MAX_PROOF_SIZE
          THEN buyError' = Some(MsgProofSize) /\ UNCHANGED proofFile
          ELSE proofFile' = Some(file) /\ buyError' = None
  /\ UNCHANGED <<packages, selectedPackage, buyLoading, submitting, success,
                 user, urlPackage, packagesCalls, purchaseCalls>>

\* the handler's body: the guard on package, proof and user, then the POST
submitPurchase ==
  IF selectedPackage = None \/ proofFile = None \/ user = None
  THEN /\ buyError' = Some(MsgChoose)
       /\ UNCHANGED <<packages, selectedPackage, proofFile, buyLoading,
                      submitting, success, user, urlPackage, packagesCalls,
                      purchaseCalls>>
  ELSE /\ submitting' = TRUE
       /\ buyError' = None
       /\ purchaseCalls' = purchaseCalls \cup
            {[user_id |-> user[1], package_id |-> selectedPackage[1].id,
              proof |-> proofFile[1]]}
       /\ UNCHANGED <<packages, selectedPackage, proofFile, buyLoading,
                      success, user, urlPackage, packagesCalls>>

\* submit of the form; its button is disabled={!proofFile || submitting}
handleSubmit ==
  /\ buyShown
  /\ selectedPackage # None
  /\ proofFile # None
  /\ ~submitting
  /\ submitPurchase

\* res.ok
PurchaseOk(call) ==
  /\ call \in purchaseCalls
  /\ purchaseCalls' = purchaseCalls \ {call}
  /\ success' = TRUE
  /\ submitting' = FALSE
  /\ UNCHANGED <<packages, selectedPackage, proofFile, buyLoading, buyError,
                 user, urlPackage, packagesCalls>>

\* throw new Error(data.detail || "Gagal mengirim pembelian")
PurchaseNotOk(call, data) ==
  /\ call \in purchaseCalls
  /\ purchaseCalls' = purchaseCalls \ {call}
  /\ buyError' = OrElse(data.detail, Some(MsgPurchaseFailed))
  /\ submitting' = FALSE
  /\ UNCHANGED <<packages, selectedPackage, proofFile, buyLoading, success,
                 user, urlPackage, packagesCalls>>

\* the fetch rejects or the body does not parse
PurchaseThrew(call, message) ==
  /\ call \in purchaseCalls
  /\ purchaseCalls' = purchaseCalls \ {call}
  /\ buyError' = Some(message)
  /\ submitting' = FALSE
  /\ UNCHANGED <<packages, selectedPackage, proofFile, buyLoading, success,
                 user, urlPackage, packagesCalls>>

\* the auth context drops the user; the effect's router.push("/login") has
\* not yet replaced the page
SignedOut ==
  /\ user # None
  /\ user' = None
  /\ UNCHANGED <<packages, selectedPackage, proofFile, buyLoading, submitting,
                 success, buyError, urlPackage, packagesCalls, purchaseCalls>>

\* the useState initialisers, no user
BuyConstructed ==
  /\ packages = Some(<<>>)
  /\ selectedPackage = None
  /\ proofFile = None
  /\ buyLoading = TRUE
  /\ submitting = FALSE
  /\ success = FALSE
  /\ buyError = None
  /\ user = None
  /\ urlPackage = None
  /\ packagesCalls = 0
  /\ purchaseCalls = {}

\* after the mount effect for a signed-in user: fetchPackages is awaited
BuyMounted ==
  /\ packages = Some(<<>>)
  /\ selectedPackage = None
  /\ proofFile = None
  /\ buyLoading = TRUE
  /\ submitting = FALSE
  /\ success = FALSE
  /\ buyError = None
  /\ user = Some("u1")
  /\ urlPackage \in UrlPackages
  /\ packagesCalls = 1
  /\ purchaseCalls = {}

\* ==================================================== database (the schema)
\* rows the four tables may hold together
MaxRows == 2

\* clock ticks of the free-credit specification, half a day each
MaxTicks == 15

Users == {"u1", "u2"}

\* who runs a statement: auth.uid() and auth.role()
UserActor(u) == [uid |-> Some(u), role |-> "authenticated"]

Anon == [uid |-> None, role |-> "anon"]

ServiceRole == [uid |-> None, role |-> "service_role"]

Actors == {UserActor(u) : u \in Users} \cup {Anon, ServiceRole}

Tables == {"user_credits", "credit_purchases", "credit_usage", "recordings"}

\* the rows of a table
Table(t) ==
  CASE t = "user_credits" -> user_credits
    [] t = "credit_purchases" -> credit_purchases
    [] t = "credit_usage" -> credit_usage
    [] t = "recordings" -> recordings

\* the table's rows become `rows`, the other tables stay
SetTable(t, rows) ==
  /\ user_credits' = IF t = "user_credits" THEN rows ELSE user_credits
  /\ credit_purchases' =
       IF t = "credit_purchases" THEN rows ELSE credit_purchases
  /\ credit_usage' = IF t = "credit_usage" THEN rows ELSE credit_usage
  /\ recordings' = IF t = "recordings" THEN rows ELSE recordings

TotalRows ==
  Cardinality(user_credits) + Cardinality(credit_purchases)
    + Cardinality(credit_usage) + Cardinality(recordings)

\* free_credits INT DEFAULT 2, and the 2 written by the trigger and the reset
FreeAllotment == 2

\* CHECK (status IN ('pending', 'approved', 'rejected'))
StatusValues == {"pending", "approved", "rejected"}

\* a user_credits row; its key is user_id
CreditsRow(u, balance, free, resetAt, purchased, used) ==
  [id |-> u, user_id |-> u, balance |-> balance, free_credits |-> free,
   free_credits_reset_at |-> resetAt, total_purchased |-> purchased,
   total_used |-> used]

\* the primary key a new row gets: gen_random_uuid(), or user_id
NewId(t, u) ==
  IF t = "user_credits" THEN u
  ELSE CHOOSE i \in 1..(MaxRows + 1) :
         /\ i \notin {r.id : r \in Table(t)}
         /\ \A j \in 1..(i - 1) : j \in {r.id : r \in Table(t)}

\* The row an INSERT for user u builds, defaults filled in; `status` is the
\* optional status an INSERT into credit_purchases names.
NewRow(t, u, status) ==
  CASE t = "user_credits" -> CreditsRow(u, 0, FreeAllotment, now, 0, 0)
    [] t = "credit_purchases" ->
         [id |-> NewId(t, u), user_id |-> u,
          status |-> IF status = None THEN "pending" ELSE status[1]]
    [] OTHER -> [id |-> NewId(t, u), user_id |-> u]

\* statuses an INSERT may name (none: the column default)
InsertStatuses == {None, Some("approved"), Some("refunded")}

\* PRIMARY KEY and CHECK constraints
ConstraintsHold(t, row) ==
  /\ row.id \notin {r.id : r \in Table(t)}
  /\ t = "credit_purchases" => row.status \in StatusValues

\* CREATE POLICY ... : the command and the expression of each policy
Policies ==
  { [table |-> "user_credits", cmd |-> "SELECT", expr |-> "own"],
    [table |-> "credit_purchases", cmd |-> "SELECT", expr |-> "own"],
    [table |-> "credit_purchases", cmd |-> "INSERT", expr |-> "own"],
    [table |-> "credit_usage", cmd |-> "SELECT", expr |-> "own"],
    [table |-> "recordings", cmd |-> "SELECT", expr |-> "own"],
    [table |-> "user_credits", cmd |-> "ALL", expr |-> "service"],
    [table |-> "credit_purchases", cmd |-> "ALL", expr |-> "service"],
    [table |-> "credit_usage", cmd |-> "ALL", expr |-> "service"],
    [table |-> "recordings", cmd |-> "ALL", expr |-> "service"] }

\* an expression that holds for every signed-in user
Holds_AnyUser(expr, actor, row) ==
  IF expr = "own" THEN actor.uid # None ELSE actor.role = "service_role"

\* auth.uid() = user_id (false for a null uid); auth.role() = 'service_role'
Holds(expr, actor, row) ==
  IF expr = "own"
  THEN actor.uid # None /\ actor.uid[1] = row.user_id
  ELSE actor.role = "service_role"

\* Row level security is enabled on all four tables: a command on a row is
\* allowed when some policy for that command (or FOR ALL) holds; a policy
\* without WITH CHECK checks new rows with its USING expression.
Allowed(actor, t, cmd, row) ==
  \E p \in Policies :
    /\ p.table = t
    /\ p.cmd \in {cmd, "ALL"}
    /\ Holds(p.expr, actor, row)

\* SELECT * FROM t as the actor
select(actor, t) == {row \in Table(t) : Allowed(actor, t, "SELECT", row)}

\* INSERT INTO t: refused as a whole when a constraint or the policy fails
Insert(actor, t, u, status) ==
  /\ TotalRows < MaxRows
  /\ LET row == NewRow(t, u, status)
     IN IF ConstraintsHold(t, row) /\ Allowed(actor, t, "INSERT", row)
        THEN SetTable(t, Table(t) \cup {row})
        ELSE SetTable(t, Table(t))
  /\ UNCHANGED now

\* what an UPDATE of the row may write
Updated(t, row) ==
  CASE t = "user_credits" ->
         {[row EXCEPT !.free_credits = 0, !.total_used = 1],
          [row EXCEPT !.balance = 5, !.total_purchased = 5]}
    [] t = "credit_purchases" ->
         {[row EXCEPT !.status = s] : s \in {"approved", "rejected"}}
    [] OTHER -> {[row EXCEPT !.user_id = u] : u \in Users}

\* UPDATE t SET ... WHERE id = row.id: rows the policies hide are not touched
Update(actor, t, row, new) ==
  /\ row \in Table(t)
  /\ new \in Updated(t, row)
  /\ IF Allowed(actor, t, "UPDATE", row) /\ Allowed(actor, t, "UPDATE", new)
     THEN SetTable(t, (Table(t) \ {row}) \cup {new})
     ELSE SetTable(t, Table(t))
  /\ UNCHANGED now

\* DELETE FROM t WHERE id = row.id
Delete(actor, t, row) ==
  /\ row \in Table(t)
  /\ IF Allowed(actor, t, "DELETE", row)
     THEN SetTable(t, Table(t) \ {row})
     ELSE SetTable(t, Table(t))
  /\ UNCHANGED now

\* the trigger on_auth_user_created_credits, once per new auth.users row
handle_new_user_credits(u) ==
  /\ \A row \in user_credits : row.user_id # u
  /\ user_credits' =
       user_credits \cup {CreditsRow(u, 0, FreeAllotment, now, 0, 0)}
  /\ UNCHANGED <<credit_purchases, credit_usage, recordings, now>>

\* SELECT free_credits_reset_at INTO last_reset ...: null without a row
last_reset(p_user_id) ==
  LET rows == {row \in user_credits : row.user_id = p_user_id}
  IN IF rows = {} THEN None
     ELSE Some((CHOOSE row \in rows : TRUE).free_credits_reset_at)

\* days counted by started days
days_since_reset_Started(last) ==
  IF last = None THEN None ELSE Some((now - last[1] + 23) \div 24)

\* EXTRACT(DAY FROM NOW() - last_reset): the whole days of the interval,
\* null for a null last_reset
days_since_reset(last) ==
  IF last = None THEN None ELSE Some((now - last[1]) \div 24)

\* public.reset_free_credits_if_needed(p_user_id), SECURITY DEFINER
reset_free_credits_if_needed(p_user_id) ==
  /\ LET days == days_since_reset(last_reset(p_user_id))
     IN IF days # None /\ days[1] >= 7
        THEN user_credits' =
               {IF row.user_id = p_user_id
                THEN [row EXCEPT !.free_credits = FreeAllotment,
                                 !.free_credits_reset_at = now]
                ELSE row : row \in user_credits}
        ELSE UNCHANGED user_credits
  /\ UNCHANGED <<credit_purchases, credit_usage, recordings, now>>

\* half a day passes
Tick ==
  /\ now + 12 <= MaxTicks * 12
  /\ now' = now + 12
  /\ UNCHANGED <<user_credits, credit_purchases, credit_usage, recordings>>

\* no rows yet
DbEmpty ==
  /\ user_credits = {}
  /\ credit_purchases = {}
  /\ credit_usage = {}
  /\ recordings = {}
  /\ now = 0

\* ============================================================= result views
\* results a view can be given
ResultBodies == SuccessBodies \cup RetrySuccessBodies

\* dashboard: `{openSections.x && (<div className="result-section-content">`
\* children of the key-points section: one .key-point per point
KeyPointsContent(result) ==
  [i \in 1..Len(result.summary.poin_penting) |->
     [class |-> "key-point", text |-> result.summary.poin_penting[i]]]

\* children of the action-items section: one .action-item per item, or the
\* paragraph shown for an empty list
ActionItemsContent(result) ==
  IF Len(result.summary.action_items) > 0
  THEN [i \in 1..Len(result.summary.action_items) |->
          [class |-> "action-item", text |-> result.summary.action_items[i]]]
  ELSE <<[class |-> "text-muted",
          text |-> "Tidak ada action items terdeteksi."]>>

\* The two list sections of the dashboard's result panel: absent when no
\* full result is selected or the section is closed, else the children of
\* the section's content container.
DashboardSections ==
  IF selectedFile = None \/ selectedFile[1].status = "processing"
       \/ selectedFile[1].result = None
  THEN [keyPoints |-> None, actionItems |-> None]
  ELSE [keyPoints |->
          IF openSections.keyPoints
          THEN Some(KeyPointsContent(selectedFile[1].result[1])) ELSE None,
        actionItems |->
          IF openSections.actionItems
          THEN Some(ActionItemsContent(selectedFile[1].result[1])) ELSE None]

\* ResultDisplay: the <li> children of the points list
PointsContent(result) ==
  [i \in 1..Len(result.summary.poin_penting) |->
     [class |-> "li", text |-> result.summary.poin_penting[i]]]

\* ResultDisplay: the action items, or the paragraph for an empty list
ActionsContent(result) ==
  IF Len(result.summary.action_items) > 0
  THEN [i \in 1..Len(result.summary.action_items) |->
          [class |-> "action-item", text |-> result.summary.action_items[i]]]
  ELSE <<[class |-> "text-muted",
          text |-> "Tidak ada action items yang terdeteksi"]>>

\* the two list sections of ResultDisplay
ResultDisplaySections ==
  IF resultProp = None
  THEN [keyPoints |-> None, actionItems |-> None]
  ELSE [keyPoints |->
          IF "points" \in expandedSections
          THEN Some(PointsContent(resultProp[1])) ELSE None,
        actionItems |->
          IF "actions" \in expandedSections
          THEN Some(ActionsContent(resultProp[1])) ELSE None]

\* dashboard: a click on a section header.  The four headers are rendered
\* with a full result, the transcript header also with a partial result.
toggleSection(section) ==
  /\ alert = None
  /\ selectedFile # None
  /\ selectedFile[1].status # "processing"
  /\ \/ selectedFile[1].result # None
     \/ selectedFile[1].partialResult # None /\ section = "transcript"
  /\ openSections' = [openSections EXCEPT ![section] = ~openSections[section]]
  /\ UNCHANGED <<expandedSections, resultProp>>

\* ResultDisplay: a click on a section header
toggleExpanded(section) ==
  /\ resultProp # None
  /\ expandedSections' =
       IF section \in expandedSections
       THEN expandedSections \ {section}
       ELSE expandedSections \cup {section}
  /\ UNCHANGED <<openSections, resultProp>>

\* the useState initialisers of both views; ResultDisplay not mounted
ViewConstructed ==
  /\ openSections = [summary |-> TRUE, keyPoints |-> TRUE,
                     actionItems |-> TRUE, transcript |-> FALSE]
  /\ expandedSections = {"summary", "points", "actions"}
  /\ resultProp = None

\* The dashboard after one upload of a file without media type has been
\* answered 2xx with `result` and the balance refresh has settled.
DashShowingResult(result) ==
  /\ files = <<[id |-> 1, name |-> NameBare, status |-> "completed",
                progress |-> 100, result |-> Some(result),
                partialResult |-> None, error |-> None]>>
  /\ selectedFileId = Some(1)
  /\ isRetrying = FALSE
  /\ userCredits = Some([total |-> Some(1), free |-> Some(1),
                         paid |-> Some(0), maxDuration |-> DefaultMaxDuration])
  /\ probes = <<>>
  /\ processReqs = {}
  /\ retryReqs = {}
  /\ balanceReqs = {}
  /\ balanceSeq = 2
  /\ alert = None

\* ------------------------------------------------------------ specification
\* The page once the signed-in user is known: the mount effect has issued the
\* first balance request.
DashMounted ==
  /\ files = <<>>
  /\ selectedFileId = None
  /\ isRetrying = FALSE
  /\ userCredits = None
  /\ probes = <<>>
  /\ processReqs = {}
  /\ retryReqs = {}
  /\ balanceReqs = {1}
  /\ balanceSeq = 1
  /\ alert = None

\* the dashboard's useState initialisers, before its mount effect
DashConstructed ==
  /\ files = <<>>
  /\ selectedFileId = None
  /\ isRetrying = FALSE
  /\ userCredits = None
  /\ probes = <<>>
  /\ processReqs = {}
  /\ retryReqs = {}
  /\ balanceReqs = {}
  /\ balanceSeq = 0
  /\ alert = None

Init == DashMounted /\ AdminConstructed /\ BuyConstructed /\ DbEmpty
        /\ ViewConstructed

\* a step of the dashboard page: the other pages' state stays as it is
Dash(A) == A /\ UNCHANGED <<adminVars, buyVars, dbVars, viewVars>>

Next ==
  \/ Dash(handleFileInput)
  \/ Dash(handleDrop)
  \/ \E i \in 1..Len(probes) : \E secs \in Durations : Dash(ProbeLoaded(i, secs))
  \/ \E i \in 1..Len(probes) : Dash(ProbeFailed(i))
  \/ \E r \in processReqs : \E data \in SuccessBodies : Dash(ProcessOk(r, data))
  \/ \E r \in processReqs : \E data \in PartialBodies : Dash(ProcessPartial(r, data))
  \/ \E r \in processReqs : \E data \in ErrorBodies : Dash(ProcessError(r, data))
  \/ \E r \in processReqs : \E m \in ThrownMessages : Dash(ProcessThrow(r, m))
  \/ \E n \in balanceReqs : \E data \in BalanceBodies : Dash(BalanceLoaded(n, data))
  \/ \E n \in balanceReqs : Dash(BalanceFailed(n))
  \/ \E i \in 1..Len(files) : Dash(SelectFile(i))
  \/ Dash(handleRetrySummarization)
  \/ \E r \in retryReqs : \E data \in RetrySuccessBodies : Dash(RetryOk(r, data))
  \/ \E r \in retryReqs : \E data \in ErrorBodies : Dash(RetryFailed(r, RetryErrorMessage(data)))
  \/ \E r \in retryReqs : \E m \in ThrownMessages : Dash(RetryFailed(r, m))
  \/ Dash(DismissAlert)

Spec == Init /\ [][Next]_vars

\* a step of the admin console
Admin(A) == A /\ UNCHANGED <<dashVars, buyVars, dbVars, viewVars>>

InitAdmin == AdminMounted /\ DashConstructed /\ BuyConstructed /\ DbEmpty
             /\ ViewConstructed

NextAdmin ==
  \/ \E k \in AdminKeys : Admin(setAdminKey(k))
  \/ Admin(handleLogin)
  \/ Admin(handleLogout)
  \/ \E tab \in {"pending", "history"} : Admin(setActiveTab(tab))
  \/ \E i \in 1..Len(currentList) : Admin(setSelectedPurchase(i))
  \/ \E action \in {"approve", "reject"} : Admin(handleAction(action))
  \/ \E i \in 1..Len(actionCalls) : Admin(ActionOk(i))
  \/ \E i \in 1..Len(actionCalls) : \E status \in ActionFailures :
       Admin(ActionNotOk(i, status))
  \/ \E i \in 1..Len(actionCalls) : Admin(ActionThrew(i))
  \/ \E res \in FetchResponses : Admin(FetchLoaded(res))
  \/ Admin(FetchThrew)

SpecAdmin == InitAdmin /\ [][NextAdmin]_vars

\* a step of the buy-credits page
Buy(A) == A /\ UNCHANGED <<dashVars, adminVars, dbVars, viewVars>>

InitBuy == BuyMounted /\ DashConstructed /\ AdminConstructed /\ DbEmpty
           /\ ViewConstructed

NextBuy ==
  \/ Buy(PackagesLoaded)
  \/ Buy(PackagesMissing)
  \/ Buy(PackagesThrew)
  \/ \E i \in 1..Len(PackageList) : Buy(setSelectedPackage(i))
  \/ \E file \in ProofFiles : Buy(handleFileChange(file))
  \/ Buy(handleSubmit)
  \/ \E call \in purchaseCalls : Buy(PurchaseOk(call))
  \/ \E call \in purchaseCalls : \E data \in PurchaseErrorBodies :
       Buy(PurchaseNotOk(call, data))
  \/ \E call \in purchaseCalls : \E m \in ThrownMessages :
       Buy(PurchaseThrew(call, m))
  \/ Buy(SignedOut)

SpecBuy == InitBuy /\ [][NextBuy]_vars

\* a statement run against the database
Db(A) == A /\ UNCHANGED <<dashVars, adminVars, buyVars, viewVars>>

InitDb == DbEmpty /\ DashConstructed /\ AdminConstructed /\ BuyConstructed
          /\ ViewConstructed

NextDb ==
  \/ \E actor \in Actors : \E t \in Tables : \E u \in Users :
       \E status \in InsertStatuses : Db(Insert(actor, t, u, status))
  \/ \E actor \in Actors : \E t \in Tables : \E row \in Table(t) :
       \E new \in Updated(t, row) : Db(Update(actor, t, row, new))
  \/ \E actor \in Actors : \E t \in Tables : \E row \in Table(t) :
       Db(Delete(actor, t, row))

SpecDb == InitDb /\ [][NextDb]_vars

\* a step of a result view
View(A) == A /\ UNCHANGED <<dashVars, adminVars, buyVars, dbVars>>

\* a completed result is on screen in the dashboard and in a ResultDisplay
InitView ==
  /\ \E result \in SuccessBodies : DashShowingResult(result)
  /\ openSections = [summary |-> TRUE, keyPoints |-> TRUE,
                     actionItems |-> TRUE, transcript |-> FALSE]
  /\ expandedSections = {"summary", "points", "actions"}
  /\ resultProp \in {Some(result) : result \in ResultBodies}
  /\ AdminConstructed /\ BuyConstructed /\ DbEmpty

NextView ==
  \/ \E section \in {"summary", "keyPoints", "actionItems", "transcript"} :
       View(toggleSection(section))
  \/ \E section \in {"summary", "transcript", "points", "actions"} :
       View(toggleExpanded(section))

SpecView == InitView /\ [][NextView]_vars

\* the free-credit allotment over time: sign-ups, the backend's writes to
\* user_credits as service role, calls of the reset function, and the clock
NextReset ==
  \/ \E u \in Users : Db(handle_new_user_credits(u))
  \/ \E row \in user_credits : \E new \in Updated("user_credits", row) :
       Db(Update(ServiceRole, "user_credits", row, new))
  \/ \E p_user_id \in Users : Db(reset_free_credits_if_needed(p_user_id))
  \/ Db(Tick)

SpecReset == InitDb /\ [][NextReset]_vars

\* the continuation of one awaited /api/process call runs (response or throw)
ProcessSettles ==
  \E r \in processReqs :
    \/ \E data \in SuccessBodies : Dash(ProcessOk(r, data))
    \/ \E data \in PartialBodies : Dash(ProcessPartial(r, data))
    \/ \E data \in ErrorBodies : Dash(ProcessError(r, data))
    \/ \E m \in ThrownMessages : Dash(ProcessThrow(r, m))

\* The dashboard when every /api/process call eventually settles.  A
\* continuation cannot run while an alert() dialog blocks the page, so the
\* call's fairness is strong and an open dialog is eventually closed.
LiveSpec ==
  /\ Init
  /\ [][Next]_vars
  /\ SF_vars(ProcessSettles)
  /\ WF_vars(Dash(DismissAlert))

\* ================================================================== claims
\* The session with the given id, as an optional.
SessionOf(fs, id) ==
  LET hits == {i \in 1..Len(fs) : fs[i].id = id}
  IN IF hits = {} THEN None ELSE Some(fs[CHOOSE i \in hits : TRUE])

ExtensionNames == {"mp3", "wav", "m4a", "ogg", "mp4", "mov", "mkv", "avi", "webm"}

\* the name ends, case-insensitively, with a dot followed by an allowed extension
EndsWithAllowedExtension(name) ==
  /\ Len(name) >= 2
  /\ name[Len(name) - 1] = "."
  /\ ToLower(name[Len(name)]) \in ExtensionNames

\* the text after the last dot (the whole name when it has no dot) is an
\* allowed extension, case-insensitively
LastSegmentAllowed(name) ==
  /\ Len(name) >= 1
  /\ ToLower(name[Len(name)]) \in ExtensionNames

\* the balance is loaded and free + paid >= 1
CreditsAtLeastOne ==
  /\ userCredits # None
  /\ userCredits[1].free # None
  /\ userCredits[1].paid # None
  /\ userCredits[1].free[1] + userCredits[1].paid[1] >= 1

AlertIs(a, msg) == a # None /\ a[1].msg = msg

\* C1: in every reachable state at most one session has status `processing`.
C1_AtMostOneProcessing ==
  Cardinality({i \in 1..Len(files) : files[i].status = "processing"}) <= 1

\* C2: choosing or dropping a file whose name does not end with a dot and an
\* allowed extension (the credit check having passed) sends no /api/process
\* request, creates no session and reports the unsupported-format error.
C2_UnsupportedFormatRejected ==
  [][\A f \in Files :
       (~EndsWithAllowedExtension(f.name) /\ CreditsAtLeastOne /\ ChooseFile(f))
         => /\ files' = files
            /\ processReqs' = processReqs
            /\ AlertIs(alert', MsgFormat)]_vars

\* C3 as stated: choosing or dropping a file larger than 50 MB (the credit
\* check having passed) is rejected with the file-too-large error, with no
\* request and no session.
C3_TooLargeAlwaysSizeError ==
  [][\A f \in Files :
       (f.size > 50 * 1024 * 1024 /\ CreditsAtLeastOne /\ ChooseFile(f))
         => /\ files' = files
            /\ processReqs' = processReqs
            /\ probes' = probes
            /\ AlertIs(alert', MsgSize)]_vars

\* C3 as amended: a file larger than 50 MB never starts a probe, a session or
\* a request; the error reported is file-too-large when the credit check
\* passed and the text after the last dot of the name is an allowed
\* extension; a file of exactly 50 MB then passes on to the duration check.
C3_TooLargeRejected ==
  [][\A f \in Files : ChooseFile(f) =>
       /\ f.size > 50 * 1024 * 1024 =>
            /\ files' = files
            /\ processReqs' = processReqs
            /\ probes' = probes
            /\ (CreditsAtLeastOne /\ LastSegmentAllowed(f.name))
                 => AlertIs(alert', MsgSize)
       /\ (f.size = 50 * 1024 * 1024 /\ CreditsAtLeastOne
             /\ LastSegmentAllowed(f.name))
            => /\ alert' = None
               /\ Len(probes') + Len(files') = Len(probes) + Len(files) + 1]_vars

\* C3 witness: a 50 MB file became a session and a larger one was refused.
C3_Witness ==
  /\ AlertIs(alert, MsgSize)
  /\ \E i \in 1..Len(files) : files[i].name = NameClip

UploadStarted(f) ==
  /\ Len(files') = Len(files) + 1
  /\ files'[1].name = f.name
  /\ files'[1].status = "processing"
  /\ \A i \in 1..Len(files) : files'[1].id # files[i].id
  /\ processReqs \subseteq processReqs'
  /\ \E r \in processReqs' \ processReqs :
       /\ processReqs' = processReqs \cup {r}
       /\ r.file = f
       /\ r.id = files'[1].id

\* C5: a file that passed the credit, extension and size checks is probed
\* against the maximum duration of the balance known when it was chosen (the
\* body's max_duration, 20 when absent): a probed duration strictly above it
\* is rejected with the duration error, no session and no request; a duration
\* up to it, a file that is neither audio/* nor video/*, and a media element
\* error all lead to submission.
C5_DurationCheck ==
  /\ [][\A n \in balanceReqs : \A data \in BalanceBodies :
          BalanceLoaded(n, data) =>
            userCredits'[1].maxDuration =
              IF data.max_duration = None THEN 20 ELSE data.max_duration[1]]_vars
  /\ [][\A f \in Files :
          (ChooseFile(f) /\ CreditsAtLeastOne /\ LastSegmentAllowed(f.name)
             /\ f.size <= 50 * 1024 * 1024) =>
            IF Len(f.type) >= 1 /\ f.type[1] \in {"audio", "video"}
            THEN /\ Len(probes') = Len(probes) + 1
                 /\ probes'[Len(probes')].file = f
                 /\ probes'[Len(probes')].max = userCredits[1].maxDuration
                 /\ files' = files
                 /\ processReqs' = processReqs
            ELSE UploadStarted(f)]_vars
  /\ [][\A i \in 1..Len(probes) : \A secs \in Durations :
          ProbeLoaded(i, secs) =>
            IF secs > probes[i].max * 60
            THEN /\ files' = files
                 /\ processReqs' = processReqs
                 /\ AlertIs(alert', MsgDuration)
            ELSE UploadStarted(probes[i].file)]_vars
  /\ [][\A i \in 1..Len(probes) :
          ProbeFailed(i) => UploadStarted(probes[i].file)]_vars

\* C5 witness: a 35 minute file was refused under the 20 minute maximum.
C5_Witness ==
  /\ AlertIs(alert, MsgDuration)
  /\ alert[1].args = <<2100, 20>>
  /\ processReqs = {}

\* C6: every /api/process request in flight was sent after the credit,
\* extension and size checks and the duration probe of its own file, in that
\* order; every pending probe was started after the first three; and every
\* /api/retry-summary request in flight belongs to a session whose
\* /api/process call has already settled.
C6_ChecksPrecedeRequests ==
  /\ \A r \in processReqs :
       /\ r.checks = <<"credit", "extension", "size", "duration">>
       /\ LastSegmentAllowed(r.file.name)
       /\ r.file.size <= 50 * 1024 * 1024
  /\ \A i \in 1..Len(probes) :
       /\ probes[i].checks = <<"credit", "extension", "size">>
       /\ LastSegmentAllowed(probes[i].file.name)
       /\ probes[i].file.size <= 50 * 1024 * 1024
  /\ \A r \in retryReqs :
       /\ SessionOf(files, r.target) # None
       /\ SessionOf(files, r.target)[1].status # "processing"
       /\ \A q \in processReqs : q.id # r.target

\* C6 witness: a probed media file is being processed while a retry of an
\* earlier session is in flight.
C6_Witness ==
  /\ \E r \in processReqs : r.file.type # <<>>
  /\ retryReqs # {}

\* C7: a 2xx /api/process response with a parsed body moves its own session
\* from processing to completed with the body as result and issues exactly
\* one balance request; a call that settles any other way issues none.
C7_SuccessCompletesAndRefreshesOnce ==
  /\ [][\A r \in processReqs : \A data \in SuccessBodies :
          ProcessOk(r, data) =>
            /\ SessionOf(files, r.id) # None
            /\ SessionOf(files, r.id)[1].status = "processing"
            /\ SessionOf(files', r.id)[1].status = "completed"
            /\ SessionOf(files', r.id)[1].result = Some(data)
            /\ balanceReqs \subseteq balanceReqs'
            /\ Cardinality(balanceReqs' \ balanceReqs) = 1
            /\ balanceSeq' = balanceSeq + 1]_vars
  /\ [][(\E r \in processReqs :
           /\ r \notin processReqs'
           /\ SessionOf(files', r.id)[1].status # "completed")
          => /\ balanceReqs' = balanceReqs
             /\ balanceSeq' = balanceSeq]_vars

\* C7 witness: a session completed by /api/process, its refresh in flight.
C7_Witness ==
  /\ \E i \in 1..Len(files) :
       /\ files[i].status = "completed"
       /\ files[i].result # None
       /\ files[i].result[1].transcript \in {"t1", "t2"}
  /\ balanceReqs = {2}

\* C8: a non-2xx response with status partial leaves its session in error
\* with the response's transcript and cache_key as partial result, no result
\* and no error message; a partial result then changes in no step except the
\* one where a retry of that session succeeds.
C8_PartialKept ==
  /\ [][\A r \in processReqs : \A data \in PartialBodies :
          ProcessPartial(r, data) =>
            /\ SessionOf(files', r.id)[1].status = "error"
            /\ SessionOf(files', r.id)[1].partialResult # None
            /\ SessionOf(files', r.id)[1].partialResult[1].transcript
                 = data.transcript
            /\ SessionOf(files', r.id)[1].partialResult[1].cache_key
                 = data.cache_key
            /\ SessionOf(files', r.id)[1].result = None
            /\ SessionOf(files', r.id)[1].error = None]_vars
  /\ [][\A i \in 1..Len(files) :
          files[i].partialResult # None =>
            /\ SessionOf(files', files[i].id) # None
            /\ \/ /\ SessionOf(files', files[i].id)[1].partialResult
                       = files[i].partialResult
                  /\ SessionOf(files', files[i].id)[1].status = "error"
               \/ /\ SessionOf(files', files[i].id)[1].status = "completed"
                  /\ \E r \in retryReqs :
                       r \notin retryReqs' /\ r.target = files[i].id]_vars

\* C8 witness: a partial session kept while a later upload was handled.
C8_Witness ==
  /\ Len(files) = 2
  /\ files[2].status = "error"
  /\ files[2].partialResult # None
  /\ files[2].partialResult[1].cache_key = "abc123"
  /\ files[1].status # "processing"

\* C9: retry on a session whose partial result has a non-empty cache key
\* sends one /api/retry-summary request whose body is exactly that session's
\* cache_key; on a 2xx response that session is completed with the response
\* body as result and its partial result and error cleared.
C9_RetrySendsKeyAndCompletes ==
  /\ [][(handleRetrySummarization
           /\ selectedFile[1].partialResult[1].cache_key # "") =>
          /\ retryReqs' =
               retryReqs \cup
                 {[target |-> selectedFileId[1],
                   body |-> [cache_key |->
                               selectedFile[1].partialResult[1].cache_key]]}
          /\ Cardinality(retryReqs') = Cardinality(retryReqs) + 1]_vars
  /\ [][\A r \in retryReqs : \A data \in RetrySuccessBodies :
          RetryOk(r, data) =>
            /\ SessionOf(files, r.target)[1].partialResult # None
            /\ r.body.cache_key
                 = SessionOf(files, r.target)[1].partialResult[1].cache_key
            /\ SessionOf(files', r.target)[1].status = "completed"
            /\ SessionOf(files', r.target)[1].result = Some(data)
            /\ SessionOf(files', r.target)[1].partialResult = None
            /\ SessionOf(files', r.target)[1].error = None]_vars

\* C9 witness: a session completed by a retry.
C9_Witness ==
  \E i \in 1..Len(files) :
    /\ files[i].status = "completed"
    /\ files[i].result # None
    /\ files[i].result[1].transcript = "pt1"
    /\ files[i].partialResult = None

\* the messages a failed retry can carry
RetryMessages ==
  ThrownMessages \cup {RetryErrorMessage(d) : d \in ErrorBodies}

\* C10 as stated: a failed retry leaves the session in error with the same
\* partial transcript and cache key, and sets the partial error message to
\* the error of the failed retry.
C10_PartialErrorUpdated ==
  [][\A r \in retryReqs : \A m \in RetryMessages :
       RetryFailed(r, m) =>
         /\ SessionOf(files', r.target)[1].status = "error"
         /\ SessionOf(files', r.target)[1].partialResult # None
         /\ SessionOf(files', r.target)[1].partialResult[1].transcript
              = SessionOf(files, r.target)[1].partialResult[1].transcript
         /\ SessionOf(files', r.target)[1].partialResult[1].cache_key
              = SessionOf(files, r.target)[1].partialResult[1].cache_key
         /\ SessionOf(files', r.target)[1].partialResult[1].error = m]_vars

\* C10 as amended: a failed retry changes no session (status error, partial
\* transcript, cache key and partial error message all stay) and shows the
\* retry's error in an alert; once the alert is closed the retry flag is
\* clear and retry is enabled again on that session whenever it is selected.
C10_PartialKeptRetryAlerted ==
  /\ [][\A r \in retryReqs : \A m \in RetryMessages :
          RetryFailed(r, m) =>
            /\ files' = files
            /\ SessionOf(files', r.target)[1].status = "error"
            /\ SessionOf(files', r.target)[1].partialResult # None
            /\ AlertIs(alert', m)
            /\ retryReqs' = retryReqs \ {r}]_vars
  /\ [][(alert # None /\ alert[1].from = "retry" /\ alert' = None) =>
          /\ ~isRetrying'
          /\ files' = files]_vars
  /\ [](\A i \in 1..Len(files) :
          (/\ alert = None
           /\ ~isRetrying
           /\ selectedFileId = Some(files[i].id)
           /\ files[i].partialResult # None
           /\ files[i].partialResult[1].cache_key # "")
            => ENABLED (Dash(handleRetrySummarization)
                          /\ retryReqs' # retryReqs))

\* C10 witness: a retry has failed and its session is still partial.
C10_Witness ==
  /\ alert # None
  /\ alert[1].from = "retry"
  /\ \E i \in 1..Len(files) :
       /\ files[i].status = "error"
       /\ files[i].partialResult # None
       /\ files[i].partialResult[1].cache_key = "abc123"
       /\ files[i].partialResult[1].error = "summarizer unavailable"

\* a session that failed with no partial result
HardError(f) == f.status = "error" /\ f.partialResult = None

\* C11: a /api/process call that ends neither 2xx nor partial (a thrown
\* fetch or an unparsable body included) leaves its session in error with a
\* non-empty error message, no partial result and no result; while such a
\* session is selected the retry button is not offered and the retry handler
\* sends no request and changes no state.
C11_HardErrorNotRetryable ==
  /\ [][\A r \in processReqs :
          ((\E data \in ErrorBodies : ProcessError(r, data))
             \/ (\E m \in ThrownMessages : ProcessThrow(r, m)))
            => /\ SessionOf(files', r.id) # None
               /\ SessionOf(files', r.id)[1].status = "error"
               /\ SessionOf(files', r.id)[1].error # None
               /\ SessionOf(files', r.id)[1].error # Some("")
               /\ SessionOf(files', r.id)[1].partialResult = None
               /\ SessionOf(files', r.id)[1].result = None]_vars
  /\ [](\A i \in 1..Len(files) :
          (HardError(files[i]) /\ selectedFileId = Some(files[i].id))
            => /\ ~retryOffered
               /\ ~ENABLED (Dash(retrySummarization) /\ vars' # vars))

\* C11 witness: a hard-error session is selected and nothing blocks a click.
C11_Witness ==
  /\ alert = None
  /\ ~isRetrying
  /\ selectedFile # None
  /\ HardError(selectedFile[1])
  /\ selectedFile[1].error = Some("corrupt file")

\* C12: a session's status changes only from processing to completed, from
\* processing to error, or from error with a partial result to completed; a
\* completed session keeps its status and result and a session in error
\* without a partial result never changes again.
C12_StatusTransitions ==
  [][\A i \in 1..Len(files) :
       LET before == files[i]
           after == SessionOf(files', before.id)
       IN /\ after # None
          /\ after[1].status # before.status =>
                \/ before.status = "processing" /\ after[1].status = "completed"
                \/ before.status = "processing" /\ after[1].status = "error"
                \/ /\ before.status = "error"
                   /\ before.partialResult # None
                   /\ after[1].status = "completed"
          /\ before.status = "completed" =>
                after[1].status = "completed" /\ after[1].result = before.result
          /\ HardError(before) => after[1] = before]_vars

\* C12 witness: one session completed through a retry beside a hard error.
C12_Witness ==
  /\ Len(files) = 2
  /\ files[2].status = "completed"
  /\ files[2].result # None
  /\ files[2].result[1].transcript = "pt1"
  /\ HardError(files[1])

\* the number of /api/process calls in flight for the session
CallsInFlight(id) == Cardinality({r \in processReqs : r.id = id})

\* C13: a session leaves processing only in a step in which its own
\* /api/process call settles (while it is processing exactly that one call
\* is in flight: nothing cancels or repeats it); when every call eventually
\* settles, a state is eventually reached in which every session is completed
\* or in error, so that no session is processing and the upload controls
\* are enabled.
C13_LeavesProcessingBySettling ==
  /\ [][\A i \in 1..Len(files) :
          (/\ files[i].status = "processing"
           /\ SessionOf(files', files[i].id)[1].status # "processing")
            => \E r \in processReqs :
                 r.id = files[i].id /\ r \notin processReqs']_vars
  /\ [](\A i \in 1..Len(files) :
          files[i].status = "processing" => CallsInFlight(files[i].id) = 1)
  /\ (\E i \in 1..Len(files) : files[i].status = "processing")
       ~> (\A i \in 1..Len(files) : files[i].status \in {"completed", "error"})

\* C13 witness: two sessions were processing and both calls have settled.
C13_Witness ==
  /\ Len(files) = 2
  /\ processReqs = {}
  /\ files[1].status = "completed"
  /\ files[2].status = "error"

\* the fixed fallback texts of the three handlers
GenericMessages == {MsgGeneric, "Gagal retry", "Gagal mengirim pembelian"}

\* what an error body should show: its error, else its detail, else a
\* non-empty generic text
ExpectedMessages(data) ==
  IF data.error # None /\ data.error # Some("") THEN {data.error[1]}
  ELSE IF data.detail # None /\ data.detail # Some("") THEN {data.detail[1]}
  ELSE GenericMessages \ {""}

\* C14: the message shown for a failed /api/process or /api/retry-summary
\* call whose response carries an error body is the body's error or detail
\* when one is present and a fixed non-empty generic message when neither is.
C14_MessageFromBodyOrGeneric ==
  [][\A data \in ErrorBodies :
       /\ \A r \in processReqs :
            ProcessError(r, data) =>
              /\ SessionOf(files', r.id)[1].error # None
              /\ SessionOf(files', r.id)[1].error[1] \in ExpectedMessages(data)
       /\ \A r \in retryReqs :
            RetryFailed(r, RetryErrorMessage(data)) =>
              /\ alert' # None
              /\ alert'[1].msg \in ExpectedMessages(data)]_vars

\* the ids of the purchases in a list
IdsOf(list) == {list[i].id : i \in 1..Len(list)}

\* C15: once an approve or reject of a pending purchase is answered 2xx the
\* purchase is gone from the pending list and is in the history list with
\* status approved or rejected; an approve or reject request is only ever
\* sent for a purchase of the pending list, never for one in history.
C15_ActedPurchaseMovesToHistory ==
  /\ [][\A i \in 1..Len(actionCalls) :
          (ActionOk(i) /\ actionCalls[i].processed # None)
            => /\ actionCalls[i].id \notin IdsOf(purchases')
               /\ \E j \in 1..Len(history') :
                    /\ history'[j].id = actionCalls[i].id
                    /\ history'[j].status =
                         (IF actionCalls[i].action = "approve"
                          THEN "approved" ELSE "rejected")]_vars
  /\ [][\A action \in {"approve", "reject"} :
          handleAction(action)
            => /\ selectedPurchase[1].id \in IdsOf(purchases)
               /\ selectedPurchase[1].id \notin IdsOf(history)]_vars

\* C16: a 401 answer to any admin call (the pending list, the history list,
\* approve or reject) removes the stored admin key and returns the console
\* to the unauthenticated login state.
C16_UnauthorizedClearsKey ==
  [][/\ \A res \in FetchResponses :
          ((res.pendingStatus = 401 \/ res.historyStatus = 401)
             /\ FetchLoaded(res))
            => savedKey' = None /\ ~authenticated'
     /\ \A i \in 1..Len(actionCalls) :
          ActionNotOk(i, 401) => savedKey' = None /\ ~authenticated']_vars

\* the proof has an allowed image type and at most 5 * 1024 * 1024 bytes
ProofAcceptable(f) ==
  /\ f.type \in {"image/jpeg", "image/png", "image/webp"}
  /\ f.size <= 5242880

\* C17: a POST /api/credits/purchase is sent only in a step taken with a
\* package selected and a user signed in, and every request carries that
\* package, that user and a proof of an allowed image type and of at most
\* 5 * 1024 * 1024 bytes; a chosen file that fails either check changes
\* neither the stored proof nor the requests, and the stored proof always
\* passes both checks.
C17_PurchaseOnlyWithValidProof ==
  /\ [][\A call \in purchaseCalls' \ purchaseCalls :
          /\ selectedPackage # None
          /\ call.package_id = selectedPackage[1].id
          /\ user # None
          /\ call.user_id = user[1]
          /\ proofFile = Some(call.proof)
          /\ ProofAcceptable(call.proof)]_vars
  /\ [][\A file \in ProofFiles :
          (~ProofAcceptable(file) /\ handleFileChange(file))
            => /\ proofFile' = proofFile
               /\ purchaseCalls' = purchaseCalls
               /\ buyError' # None]_vars
  /\ [](/\ proofFile # None => ProofAcceptable(proofFile[1])
        /\ \A call \in purchaseCalls : ProofAcceptable(call.proof))

\* C17 witness: a proof of exactly 5 MB is in flight for the package the user
\* picked in place of the one the URL preselected.
C17_Witness ==
  /\ \E call \in purchaseCalls :
       /\ call.proof.size = 5 * MB
       /\ call.package_id = "starter"
       /\ call.user_id = "u1"
  /\ submitting
  /\ urlPackage = Some("value")

\* the actors other than the service role
NonPrivileged == {actor \in Actors : actor.role # "service_role"}

\* C18: every credit_purchases row that a statement of a non-privileged
\* actor adds carries that actor's own user_id and status pending, and no
\* statement of a non-privileged actor makes an approved or rejected row.
C18_UserRowsOwnAndPending ==
  [][\A actor \in NonPrivileged :
       ((\E u \in Users : \E status \in InsertStatuses :
           Insert(actor, "credit_purchases", u, status))
        \/ (\E row \in credit_purchases :
              \E new \in Updated("credit_purchases", row) :
                Update(actor, "credit_purchases", row, new)))
         => \A row \in credit_purchases' \ credit_purchases :
              /\ actor.uid = Some(row.user_id)
              /\ row.status = "pending"]_vars

\* C19: what a non-privileged actor selects from any of the four tables has
\* that actor's id as user_id, and an UPDATE or DELETE of a non-privileged
\* actor changes no table; the service role selects every row and its
\* INSERT (constraints permitting), UPDATE and DELETE take effect.
C19_OwnRowsReadOnly ==
  /\ [](\A actor \in NonPrivileged : \A t \in Tables :
          \A row \in select(actor, t) : actor.uid = Some(row.user_id))
  /\ [](\A t \in Tables : select(ServiceRole, t) = Table(t))
  /\ [][\A actor \in NonPrivileged : \A t \in Tables : \A row \in Table(t) :
          ((\E new \in Updated(t, row) : Update(actor, t, row, new))
             \/ Delete(actor, t, row))
            => UNCHANGED dbVars]_vars
  /\ [][\A t \in Tables :
          /\ \A row \in Table(t) :
               /\ \A new \in Updated(t, row) :
                    Update(ServiceRole, t, row, new)
                      => new \in Table(t)' /\ (new # row => row \notin Table(t)')
               /\ Delete(ServiceRole, t, row) => row \notin Table(t)'
          /\ \A u \in Users : \A status \in InsertStatuses :
               (/\ Insert(ServiceRole, t, u, status)
                /\ status # Some("refunded")
                /\ t = "user_credits" => \A row \in user_credits : row.user_id # u)
                 => Cardinality(Table(t)') = Cardinality(Table(t)) + 1]_vars

\* C19 witness: two users' purchases, one of them approved by the service
\* role; u1 selects only its own.
C19_Witness ==
  /\ Cardinality(credit_purchases) = 2
  /\ \E row \in credit_purchases :
       row.user_id = "u2" /\ row.status = "approved"
  /\ Cardinality(select(UserActor("u1"), "credit_purchases")) = 1

\* the user's user_credits row, as an optional
CreditsOf(rows, u) ==
  IF \E row \in rows : row.user_id = u
  THEN Some(CHOOSE row \in rows : row.user_id = u)
  ELSE None

\* C20 as stated: the reset function sets free_credits to 2 and
\* free_credits_reset_at to the current time when more than 7 days have
\* passed since free_credits_reset_at and changes neither otherwise, in
\* particular at exactly 7 days; balance, total_purchased and total_used
\* stay as they are.
C20_ResetAfterMoreThanSevenDays ==
  [][\A u \in Users :
       (reset_free_credits_if_needed(u) /\ CreditsOf(user_credits, u) # None)
         => LET before == CreditsOf(user_credits, u)[1]
                after == CreditsOf(user_credits', u)[1]
            IN /\ IF now - before.free_credits_reset_at > 7 * 24
                  THEN /\ after.free_credits = 2
                       /\ after.free_credits_reset_at = now
                  ELSE /\ after.free_credits = before.free_credits
                       /\ after.free_credits_reset_at
                            = before.free_credits_reset_at
               /\ after.balance = before.balance
               /\ after.total_purchased = before.total_purchased
               /\ after.total_used = before.total_used]_vars

\* C20 as amended: the reset function sets free_credits to 2 and
\* free_credits_reset_at to the current time when at least 7 full days (7 *
\* 24 hours, exactly 7 days included) have passed since
\* free_credits_reset_at and changes neither otherwise; balance,
\* total_purchased and total_used stay as they are, and so do the rows of
\* the other users and the other tables.
C20_ResetAfterSevenFullDays ==
  [][\A u \in Users :
       reset_free_credits_if_needed(u)
         => /\ UNCHANGED <<credit_purchases, credit_usage, recordings, now>>
            /\ \A v \in Users \ {u} :
                 CreditsOf(user_credits', v) = CreditsOf(user_credits, v)
            /\ CreditsOf(user_credits, u) = None
                 => CreditsOf(user_credits', u) = None
            /\ CreditsOf(user_credits, u) # None
                 => LET before == CreditsOf(user_credits, u)[1]
                        after == CreditsOf(user_credits', u)[1]
                    IN /\ IF now - before.free_credits_reset_at >= 7 * 24
                          THEN /\ after.free_credits = 2
                               /\ after.free_credits_reset_at = now
                          ELSE /\ after.free_credits = before.free_credits
                               /\ after.free_credits_reset_at
                                    = before.free_credits_reset_at
                       /\ after.balance = before.balance
                       /\ after.total_purchased = before.total_purchased
                       /\ after.total_used = before.total_used]_vars

\* C20 witness: a user who signed up at hour 0, bought credits and used the
\* free ones has had them restored at exactly 7 days.
C20_Witness ==
  \E row \in user_credits :
    /\ row.free_credits_reset_at = 7 * 24
    /\ row.free_credits = 2
    /\ row.total_used = 1
    /\ row.balance = 5

\* a rendered section has children, and for an empty list they are a message
\* and not list entries
ListOrNoneMessage(section, list, entryClass) ==
  section # None =>
    /\ Len(section[1]) >= 1
    /\ Len(list) = 0 => \A i \in 1..Len(section[1]) :
                          /\ section[1][i].class # entryClass
                          /\ section[1][i].text # ""

\* C21: for a completed result, in the dashboard's result panel and in
\* ResultDisplay, a rendered key-points section and a rendered action-items
\* section are never an empty container: a list of length 0 shows a message
\* saying there is none.
C21_EmptyListsShowNoneMessage ==
  /\ (selectedFile # None /\ selectedFile[1].result # None) =>
       /\ ListOrNoneMessage(DashboardSections.keyPoints,
            selectedFile[1].result[1].summary.poin_penting, "key-point")
       /\ ListOrNoneMessage(DashboardSections.actionItems,
            selectedFile[1].result[1].summary.action_items, "action-item")
  /\ resultProp # None =>
       /\ ListOrNoneMessage(ResultDisplaySections.keyPoints,
            resultProp[1].summary.poin_penting, "li")
       /\ ListOrNoneMessage(ResultDisplaySections.actionItems,
            resultProp[1].summary.action_items, "action-item")

\* C22: selecting a session changes only the selected-session id: no request
\* is sent, and the session list, every session's status and data, the retry
\* flag and the credit balance are unchanged, also while another session is
\* processing.
C22_SelectChangesOnlySelection ==
  [][(\/ \E i \in 1..Len(files) : SelectFile(i)
      \/ selectedFileId' # selectedFileId /\ Len(files') = Len(files))
     => UNCHANGED <<files, isRetrying, userCredits, probes, processReqs,
                    retryReqs, balanceReqs, balanceSeq, alert>>]_vars

\* C22 witness: the older, completed session has been selected while the
\* newer one is processing (an upload always selects the newest).
C22_Witness ==
  /\ Len(files) = 2
  /\ files[1].status = "processing"
  /\ files[2].status = "completed"
  /\ selectedFileId = Some(files[2].id)
  /\ processReqs # {}

\* the number of result fields a session has set
FieldsSet(f) ==
  Cardinality({k \in {"result", "partialResult", "error"} : f[k] # None})

\* C23: every session has at most one of full result, partial result and
\* error message, and its status agrees: processing iff none, completed iff
\* the full result, error iff the partial result or the error message.
C23_StatusAgreesWithData ==
  \A i \in 1..Len(files) :
    /\ FieldsSet(files[i]) <= 1
    /\ files[i].status = "processing" <=> FieldsSet(files[i]) = 0
    /\ files[i].status = "completed" <=> files[i].result # None
    /\ files[i].status = "error" <=>
         (files[i].partialResult # None \/ files[i].error # None)

\* C23 witness: a session completed by a retry (its partial result cleared)
\* beside a session that holds a partial result.
C23_Witness ==
  /\ Len(files) = 2
  /\ files[2].status = "completed"
  /\ files[2].result # None
  /\ files[2].result[1].transcript = "pt1"
  /\ files[1].status = "error"
  /\ files[1].partialResult # None

\* the entries of every session but `id` are as they were, in place
OthersUntouched(id) ==
  /\ Len(files') = Len(files)
  /\ \A i \in 1..Len(files) :
       /\ files'[i].id = files[i].id
       /\ files[i].id # id => files'[i] = files[i]

\* C24: the settling of a session's /api/process call or of a retry changes
\* only that session's entry: every other entry is unchanged and the list
\* keeps its length and order; and no step ever removes a session.
C24_OutcomeTouchesOneSession ==
  /\ [][\A r \in processReqs :
          processReqs' = processReqs \ {r} => OthersUntouched(r.id)]_vars
  /\ [][\A r \in retryReqs :
          retryReqs' = retryReqs \ {r} => OthersUntouched(r.target)]_vars
  /\ [][\A i \in 1..Len(files) : SessionOf(files', files[i].id) # None]_vars

\* C24 witness: an upload has failed hard beside a session that a retry
\* completed.
C24_Witness ==
  /\ Len(files) = 2
  /\ HardError(files[1])
  /\ files[1].error = Some("Failed to fetch")
  /\ files[2].status = "completed"
  /\ files[2].result # None
  /\ files[2].result[1].transcript = "pt1"
  /\ retryReqs = {}
  /\ processReqs = {}

\* C25: a retry request is for the session selected when retry was invoked,
\* and its outcome is applied to that session whatever is selected when the
\* response arrives: success completes it with the returned result, and no
\* other session, the selected one included, is modified.
C25_RetryAppliesToInvokedSession ==
  /\ [][\A r \in retryReqs' \ retryReqs :
          selectedFileId = Some(r.target)]_vars
  /\ [][\A r \in retryReqs :
          retryReqs' = retryReqs \ {r} =>
            /\ OthersUntouched(r.target)
            /\ alert' = None =>
                 LET after == SessionOf(files', r.target)
                 IN /\ after # None
                    /\ after[1].status = "completed"
                    /\ after[1].result # None
                    /\ after[1].partialResult = None]_vars

\* C25 witness: a retry is in flight for one partial session while another
\* partial session is selected.
C25_Witness ==
  \E r \in retryReqs :
    /\ selectedFileId # None
    /\ selectedFileId # Some(r.target)
    /\ selectedFile # None
    /\ selectedFile[1].partialResult # None
    /\ alert = None

\* C26: at most one /api/retry-summary request is in flight; while one is
\* pending the retry control is disabled whatever is selected; when it has
\* settled (and the dialog of a failure is closed) the control is enabled
\* again.
C26_OneRetryAtATime ==
  /\ Cardinality(retryReqs) <= 1
  /\ retryReqs # {} => isRetrying /\ ~retryOffered
  /\ (retryReqs = {} /\ alert = None) => ~isRetrying

\* C26 witness: two partial sessions, a retry pending for one of them.
C26_Witness ==
  /\ Len(files) = 2
  /\ files[1].partialResult # None
  /\ files[2].partialResult # None
  /\ retryReqs # {}
  /\ alert = None

\* C27: once the most recently issued balance refresh has settled, the
\* response to an earlier refresh does not change the balance, so that with
\* nothing in flight the balance is the one of the latest request.
C27_LatestRefreshWins ==
  [][\A n \in balanceReqs :
       (/\ balanceReqs' = balanceReqs \ {n}
        /\ n # balanceSeq
        /\ balanceSeq \notin balanceReqs)
       => userCredits' = userCredits]_vars

\* C28: while an approve or reject request for a purchase is in flight, no
\* second one for the same purchase is issued: the requests in flight are
\* for distinct purchases.
C28_OneActionPerPurchase ==
  \A i, j \in 1..Len(actionCalls) :
    i # j => actionCalls[i].id # actionCalls[j].id

\* the purchase ids of a list, with repetitions
IdsIn(list) == [i \in 1..Len(list) |-> list[i].id]

\* no value occurs twice in the sequence
NoRepeat(seq) == \A i, j \in 1..Len(seq) : i # j => seq[i] # seq[j]

\* C29: each purchase id occurs at most once in the pending list, at most
\* once in the history list and never in both (the lists loaded from the
\* backend are duplicate-free and disjoint).
C29_ListsDuplicateFreeAndDisjoint ==
  NoRepeat(IdsIn(purchases) \o IdsIn(history))

\* C30: choosing a proof file that fails the type check or the size check
\* sets the error of that check and leaves the stored proof as it was; the
\* stored proof is absent or a file that passed both checks; and a submit
\* sends the stored proof, that is the last accepted file.
C30_RejectedProofKeepsAccepted ==
  /\ [][\A file \in ProofFiles :
          (handleFileChange(file) /\ ~ProofAcceptable(file)) =>
            /\ proofFile' = proofFile
            /\ buyError' # None
            /\ buyError' = IF file.type \in {"image/jpeg", "image/png", "image/webp"}
                           THEN Some(MsgProofSize) ELSE Some(MsgProofType)]_vars
  /\ [][\A file \in ProofFiles :
          (handleFileChange(file) /\ ProofAcceptable(file)) =>
            proofFile' = Some(file)]_vars
  /\ [](proofFile # None => ProofAcceptable(proofFile[1]))
  /\ [][\A call \in purchaseCalls' \ purchaseCalls :
          /\ proofFile # None
          /\ call.proof = proofFile[1]
          /\ proofFile' = proofFile]_vars

\* C30 witness: an oversized file has just been refused while the proof
\* accepted before it is still the stored one.
C30_Witness ==
  /\ buyError = Some(MsgProofSize)
  /\ proofFile # None
  /\ proofFile[1].name = "bukti.jpg"
  /\ ~submitting
  /\ purchaseCalls = {}

====
